---- MODULE Spec2Model ----
(***************************************************************************)
(* Model of deploy_indexes.py: main() drives MongoIndexDeployer through    *)
(* the tool check, the connectivity check, the directory scan and one      *)
(* mongosh invocation per discovered script, and maps the outcome to the   *)
(* process exit code.                                                      *)
(*                                                                         *)
(* The environment (the secret, the directory contents, what every child   *)
(* process does, the interruption signal) is nondeterministic.  File names *)
(* are sequences of character codes so that sorted() is modelled by the    *)
(* comparison it performs.                                                 *)
(***************************************************************************)
EXTENDS Naturals, Integers, Sequences, FiniteSets, TLC

VARIABLES
    pc,                 \* position of main() / deploy_indexes()
    connection_string,  \* os.environ.get('MONGODB_CONNECTION_STRING')
    dirState,           \* what Path(directory) is on disk
    dirEntries,         \* names of the entries of the directory
    tool,               \* return value of check_mongosh_installed()
    conn,               \* return value of test_connection()
    js_files,           \* return value of find_js_files()
    idx,                \* number of completed iterations of the for loop
    successful_count,
    failed_count,
    all_successful,
    success,            \* return value of deploy_indexes()
    child,              \* the child process subprocess.run is waiting for
    calls,              \* history of subprocess.run calls
    results,            \* history of execute_js_file() return values
    log,                \* lines handed to the logger
    summary,            \* the deployment summaries logged
    exitCode,           \* argument of sys.exit()
    interrupted,        \* KeyboardInterrupt reached main()'s handler
    fatal               \* an Exception reached main()'s handler

vars == <<pc, connection_string, dirState, dirEntries, tool, conn, js_files,
          idx, successful_count, failed_count, all_successful, success,
          child, calls, results, log, summary, exitCode, interrupted, fatal>>

-----------------------------------------------------------------------------
(* Bounds and inputs *)

\* Largest number of entries of the scripts directory.
MaxEntries == 3

\* "1.js", "10.js", "2.js", "1-a.js" and "a.txt" as character codes.
NamePool ==
    { <<49, 46, 106, 115>>,
      <<49, 48, 46, 106, 115>>,
      <<50, 46, 106, 115>>,
      <<49, 45, 97, 46, 106, 115>>,
      <<97, 46, 116, 120, 116>> }

\* Text a child process may write to a stream.
StreamTexts == {"", "Timeout"}

NoExit == -1

\* What subprocess.run does once the child is running: the child completes with
\* a return code and its two streams, the timeout expires, or the call raises
\* another exception (for instance while decoding the output).
RunOutcomes ==
    [kind : {"completed"}, returncode : {0, 1}, stdout : StreamTexts, stderr : StreamTexts]
    \cup [kind : {"timeout", "error"}, returncode : {NoExit}, stdout : {""}, stderr : {""}]

\* What subprocess.run does when it cannot start the child: the executable is
\* not on the path (FileNotFoundError) or the spawn fails otherwise (OSError).
SpawnFailures == {"notfound", "oserror"}

-----------------------------------------------------------------------------
(* Pure helpers *)

\* Pattern '*.js' of dir_path.glob: the name ends in ".js".
MatchesJs(name) ==
    /\ Len(name) >= 3
    /\ SubSeq(name, Len(name) - 2, Len(name)) = <<46, 106, 115>>

\* Order of sorted() on paths of one directory: code-point order of the names.
RECURSIVE NameLess(_, _)
NameLess(a, b) ==
    IF a = <<>> THEN b # <<>>
    ELSE IF b = <<>> THEN FALSE
    ELSE IF Head(a) # Head(b) THEN Head(a) < Head(b)
    ELSE NameLess(Tail(a), Tail(b))

\* Every order in which the directory listing may yield the set S.
Listings(S) ==
    { s \in [1..Cardinality(S) -> S] : \A i, j \in 1..Cardinality(S) : i # j => s[i] # s[j] }

\* sorted(listing): insertion of every element at its place.
RECURSIVE Insert(_, _)
Insert(x, s) ==
    IF s = <<>> THEN <<x>>
    ELSE IF NameLess(x, Head(s)) THEN <<x>> \o s
    ELSE <<Head(s)>> \o Insert(x, Tail(s))

RECURSIVE Sorted(_)
Sorted(s) == IF s = <<>> THEN <<>> ELSE Insert(Head(s), Sorted(Tail(s)))

\* The matching entries in the order the directory yields them.
GlobSorted_Unsorted(listing) == SelectSeq(listing, MatchesJs)

\* js_files = sorted(dir_path.glob('*.js')) for a listing of the directory.
GlobSorted(listing) == Sorted(SelectSeq(listing, MatchesJs))

Emit(l, level, msg) == Append(l, [level |-> level, msg |-> msg])

Call(kind, file, outcome) == [kind |-> kind, file |-> file, outcome |-> outcome]

\* The last call, with its outcome filled in once subprocess.run returns or raises.
Finished(cs, outcome) == [cs EXCEPT ![Len(cs)].outcome = outcome]

-----------------------------------------------------------------------------
Init ==
    /\ pc = "main"
    /\ connection_string \in {"unset", "empty", "set"}
    /\ dirState \in {"missing", "notdir", "scanerror", "dir"}
    /\ dirEntries \in { S \in SUBSET NamePool : Cardinality(S) <= MaxEntries }
    /\ dirState # "dir" => dirEntries = {}
    /\ tool = "none"
    /\ conn = "none"
    /\ js_files = <<>>
    /\ idx = 0
    /\ successful_count = 0
    /\ failed_count = 0
    /\ all_successful = TRUE
    /\ success = "none"
    /\ child = "none"
    /\ calls = <<>>
    /\ results = <<>>
    /\ log = <<>>
    /\ summary = <<>>
    /\ exitCode = NoExit
    /\ interrupted = FALSE
    /\ fatal = FALSE

\* sys.exit(code)
Exit(code) ==
    /\ pc' = "done"
    /\ exitCode' = code

\* main() without the check of the secret.
Main_NoSecretCheck ==
    /\ pc = "main"
    /\ log' = Emit(log, "INFO", "started")
    /\ pc' = "check_mongosh"
    /\ UNCHANGED exitCode
    /\ UNCHANGED <<connection_string, dirState, dirEntries, tool, conn, js_files,
                   idx, successful_count, failed_count, all_successful, success,
                   child, calls, results, interrupted, fatal, summary>>

\* main(), up to the construction of the deployer.
Main ==
    /\ pc = "main"
    /\ IF connection_string \in {"unset", "empty"}
       THEN /\ log' = Emit(Emit(Emit(log, "INFO", "started"),
                                "ERROR", "secret not set"),
                           "ERROR", "set the secret")
            /\ Exit(1)
       ELSE /\ log' = Emit(log, "INFO", "started")
            /\ pc' = "check_mongosh"
            /\ UNCHANGED exitCode
    /\ UNCHANGED <<connection_string, dirState, dirEntries, tool, conn, js_files,
                   idx, successful_count, failed_count, all_successful, success,
                   child, calls, results, interrupted, fatal, summary>>

\* check_mongosh_installed(): subprocess.run(['mongosh', '--version']) starts.
CheckMongoshStart ==
    /\ pc = "check_mongosh"
    /\ \/ /\ child' = "version"
          /\ calls' = Append(calls, Call("version", <<>>, "running"))
          /\ pc' = "check_mongosh_wait"
          /\ UNCHANGED <<tool, log>>
       \/ /\ calls' = Append(calls, Call("version", <<>>, "notfound"))
          /\ log' = Emit(Emit(log, "ERROR", "mongosh not installed"),
                         "ERROR", "install mongosh")
          /\ tool' = "fail"
          /\ pc' = "check_mongosh_ret"
          /\ UNCHANGED child
       \/ /\ calls' = Append(calls, Call("version", <<>>, "oserror"))
          /\ log' = Emit(log, "ERROR", "error checking mongosh")
          /\ tool' = "fail"
          /\ pc' = "check_mongosh_ret"
          /\ UNCHANGED child
    /\ UNCHANGED <<connection_string, dirState, dirEntries, conn, js_files, idx,
                   successful_count, failed_count, all_successful, success,
                   results, exitCode, interrupted, fatal, summary>>

\* check_mongosh_installed(): subprocess.run returns or raises.
CheckMongoshFinish ==
    /\ pc = "check_mongosh_wait"
    /\ \E r \in RunOutcomes :
          /\ calls' = Finished(calls, IF r.kind = "completed"
                                      THEN (IF r.returncode = 0 THEN "exit0" ELSE "nonzero")
                                      ELSE r.kind)
          /\ IF r.kind = "completed" /\ r.returncode = 0
             THEN /\ log' = Emit(log, "INFO", "mongosh found")
                  /\ tool' = "ok"
             ELSE IF r.kind = "completed"
             THEN /\ log' = Emit(log, "ERROR", "mongosh returned an error")
                  /\ tool' = "fail"
             ELSE /\ log' = Emit(log, "ERROR", "error checking mongosh")
                  /\ tool' = "fail"
    /\ child' = "none"
    /\ pc' = "check_mongosh_ret"
    /\ UNCHANGED <<connection_string, dirState, dirEntries, conn, js_files, idx,
                   successful_count, failed_count, all_successful, success,
                   results, exitCode, interrupted, fatal, summary>>

\* main() going on to the connectivity check whatever the tool check returned.
MainAfterCheckMongosh_NoExit ==
    /\ pc = "check_mongosh_ret"
    /\ pc' = "test_connection"
    /\ UNCHANGED <<log, exitCode>>
    /\ UNCHANGED <<connection_string, dirState, dirEntries, tool, conn, js_files,
                   idx, successful_count, failed_count, all_successful, success,
                   child, calls, results, interrupted, fatal, summary>>

\* main(): if not deployer.check_mongosh_installed(): ... sys.exit(1)
MainAfterCheckMongosh ==
    /\ pc = "check_mongosh_ret"
    /\ IF tool = "ok"
       THEN /\ pc' = "test_connection"
            /\ UNCHANGED <<log, exitCode>>
       ELSE /\ log' = Emit(log, "ERROR", "mongosh required")
            /\ Exit(1)
    /\ UNCHANGED <<connection_string, dirState, dirEntries, tool, conn, js_files,
                   idx, successful_count, failed_count, all_successful, success,
                   child, calls, results, interrupted, fatal, summary>>

\* test_connection(): subprocess.run(['mongosh', ..., 'db.adminCommand("ping")']) starts.
TestConnectionStart ==
    /\ pc = "test_connection"
    /\ \/ /\ child' = "ping"
          /\ calls' = Append(calls, Call("ping", <<>>, "running"))
          /\ log' = Emit(log, "INFO", "testing connection")
          /\ pc' = "test_connection_wait"
          /\ UNCHANGED conn
       \/ \E f \in SpawnFailures :
          /\ calls' = Append(calls, Call("ping", <<>>, f))
          /\ log' = Emit(Emit(log, "INFO", "testing connection"),
                         "ERROR", "unexpected error during connection test")
          /\ conn' = "fail"
          /\ pc' = "test_connection_ret"
          /\ UNCHANGED child
    /\ UNCHANGED <<connection_string, dirState, dirEntries, tool, js_files, idx,
                   successful_count, failed_count, all_successful, success,
                   results, exitCode, interrupted, fatal, summary>>

\* test_connection(): subprocess.run returns or raises.
TestConnectionFinish ==
    /\ pc = "test_connection_wait"
    /\ \E r \in RunOutcomes :
          /\ calls' = Finished(calls, IF r.kind = "completed"
                                      THEN (IF r.returncode = 0 THEN "exit0" ELSE "nonzero")
                                      ELSE r.kind)
          /\ IF r.kind = "completed" /\ r.returncode = 0
             THEN /\ log' = Emit(log, "INFO", "connected")
                  /\ conn' = "ok"
             ELSE IF r.kind = "completed"
             THEN /\ log' = Emit(log, "ERROR", "failed to connect")
                  /\ conn' = "fail"
             ELSE IF r.kind = "timeout"
             THEN /\ log' = Emit(log, "ERROR", "connection timed out")
                  /\ conn' = "fail"
             ELSE /\ log' = Emit(log, "ERROR", "unexpected error during connection test")
                  /\ conn' = "fail"
    /\ child' = "none"
    /\ pc' = "test_connection_ret"
    /\ UNCHANGED <<connection_string, dirState, dirEntries, tool, js_files, idx,
                   successful_count, failed_count, all_successful, success,
                   results, exitCode, interrupted, fatal, summary>>

\* main() going on to the deployment whatever the connectivity check returned.
MainAfterTestConnection_NoExit ==
    /\ pc = "test_connection_ret"
    /\ log' = Emit(log, "INFO", "starting deployment")
    /\ pc' = "deploy_indexes"
    /\ UNCHANGED exitCode
    /\ UNCHANGED <<connection_string, dirState, dirEntries, tool, conn, js_files,
                   idx, successful_count, failed_count, all_successful, success,
                   child, calls, results, interrupted, fatal, summary>>

\* main() trying the connectivity check a second time after a failure.
MainAfterTestConnection_Retry ==
    /\ pc = "test_connection_ret"
    /\ IF conn = "ok"
       THEN /\ log' = Emit(log, "INFO", "starting deployment")
            /\ pc' = "deploy_indexes"
            /\ UNCHANGED exitCode
       ELSE IF Len(calls) < 3
       THEN /\ log' = Emit(log, "ERROR", "failed to establish connection")
            /\ pc' = "test_connection"
            /\ UNCHANGED exitCode
       ELSE /\ log' = Emit(log, "ERROR", "failed to establish connection")
            /\ Exit(1)
    /\ UNCHANGED <<connection_string, dirState, dirEntries, tool, conn, js_files,
                   idx, successful_count, failed_count, all_successful, success,
                   child, calls, results, interrupted, fatal, summary>>

\* main(): if not deployer.test_connection(): ... sys.exit(1)
MainAfterTestConnection ==
    /\ pc = "test_connection_ret"
    /\ IF conn = "ok"
       THEN /\ log' = Emit(log, "INFO", "starting deployment")
            /\ pc' = "deploy_indexes"
            /\ UNCHANGED exitCode
       ELSE /\ log' = Emit(log, "ERROR", "failed to establish connection")
            /\ Exit(1)
    /\ UNCHANGED <<connection_string, dirState, dirEntries, tool, conn, js_files,
                   idx, successful_count, failed_count, all_successful, success,
                   child, calls, results, interrupted, fatal, summary>>

\* find_js_files(directory), for one order in which the directory is listed.
FindJsFiles(listing) ==
    IF dirState = "missing" \/ dirState = "notdir" \/ dirState = "scanerror"
    THEN <<>>
    ELSE GlobSorted(listing)

\* The lines find_js_files logs.
FindJsFilesLog(l, files) ==
    IF dirState = "missing" THEN Emit(l, "ERROR", "directory not found")
    ELSE IF dirState = "notdir" THEN Emit(l, "ERROR", "not a directory")
    ELSE IF dirState = "scanerror" THEN Emit(l, "ERROR", "error scanning directory")
    ELSE IF files = <<>> THEN Emit(l, "WARNING", "no .js files found")
    ELSE Emit(l, "INFO", "found files")

\* deploy_indexes() entering the loop without the 'if not js_files' check.
DeployIndexes_NoEmptyCheck ==
    /\ pc = "deploy_indexes"
    /\ \E listing \in Listings(dirEntries) :
          LET files == FindJsFiles(listing) IN
          /\ js_files' = files
          /\ log' = FindJsFilesLog(log, files)
    /\ all_successful' = TRUE
    /\ pc' = "execute_js_file"
    /\ successful_count' = 0
    /\ failed_count' = 0
    /\ idx' = 0
    /\ UNCHANGED <<connection_string, dirState, dirEntries, tool, conn, child,
                   calls, results, exitCode, interrupted, fatal, summary, success>>

\* deploy_indexes() logging the summary instead of returning early when no
\* script was found.
DeployIndexes_SummaryOnEmpty ==
    /\ pc = "deploy_indexes"
    /\ \E listing \in Listings(dirEntries) :
          LET files == FindJsFiles(listing) IN
          /\ js_files' = files
          /\ all_successful' = TRUE
          /\ IF files = <<>>
             THEN /\ log' = Emit(Emit(FindJsFilesLog(log, files),
                                      "ERROR", "no files to execute"),
                                 "INFO", "deployment summary")
                  /\ summary' = Append(summary, [total |-> 0, successful |-> 0,
                                                 failed |-> 0])
                  /\ success' = "fail"
                  /\ pc' = "deploy_ret"
             ELSE /\ log' = FindJsFilesLog(log, files)
                  /\ success' = success
                  /\ pc' = "execute_js_file"
                  /\ UNCHANGED summary
    /\ successful_count' = 0
    /\ failed_count' = 0
    /\ idx' = 0
    /\ UNCHANGED <<connection_string, dirState, dirEntries, tool, conn, child,
                   calls, results, exitCode, interrupted, fatal>>

\* deploy_indexes(), up to the for loop.
DeployIndexes ==
    /\ pc = "deploy_indexes"
    /\ \E listing \in Listings(dirEntries) :
          LET files == FindJsFiles(listing) IN
          /\ js_files' = files
          /\ all_successful' = TRUE
          /\ IF files = <<>>
             THEN /\ log' = Emit(FindJsFilesLog(log, files), "ERROR", "no files to execute")
                  /\ success' = "fail"
                  /\ pc' = "deploy_ret"
             ELSE /\ log' = FindJsFilesLog(log, files)
                  /\ success' = success
                  /\ pc' = "execute_js_file"
    /\ successful_count' = 0
    /\ failed_count' = 0
    /\ idx' = 0
    /\ UNCHANGED <<connection_string, dirState, dirEntries, tool, conn, child,
                   calls, results, exitCode, interrupted, fatal, summary>>

\* execute_js_file without the 'except subprocess.TimeoutExpired' clause: the
\* timeout falls to 'except Exception'.
ExecResult_NoTimeoutClause(file, r) ==
    IF r.kind = "completed" /\ r.returncode = 0
    THEN [file |-> file, success |-> TRUE, output |-> r.stdout, reason |-> "executed"]
    ELSE IF r.kind = "completed"
    THEN [file |-> file, success |-> FALSE, output |-> r.stderr, reason |-> "exit code"]
    ELSE [file |-> file, success |-> FALSE, output |-> "exception text",
          reason |-> "unexpected error"]

\* The tuple execute_js_file returns and the line it logs last, when
\* subprocess.run ends with r.
ExecResult(file, r) ==
    IF r.kind = "completed" /\ r.returncode = 0
    THEN [file |-> file, success |-> TRUE, output |-> r.stdout, reason |-> "executed"]
    ELSE IF r.kind = "completed"
    THEN [file |-> file, success |-> FALSE, output |-> r.stderr, reason |-> "exit code"]
    ELSE IF r.kind = "timeout"
    THEN [file |-> file, success |-> FALSE, output |-> "Timeout", reason |-> "timed out"]
    ELSE [file |-> file, success |-> FALSE, output |-> "exception text",
          reason |-> "unexpected error"]

\* The tuple execute_js_file returns when subprocess.run cannot start the child.
ExecSpawnFailure(file, f) ==
    IF f = "notfound"
    THEN [file |-> file, success |-> FALSE, output |-> "File not found",
          reason |-> "file not found"]
    ELSE [file |-> file, success |-> FALSE, output |-> "exception text",
          reason |-> "unexpected error"]

\* execute_js_file returning failure for a timeout or an exception without
\* logging it.
ExecLog_SilentException(l, r, res) ==
    LET l1 == IF r.kind = "completed" /\ r.stdout # ""
              THEN Emit(l, "INFO", "script output") ELSE l
        l2 == IF r.kind = "completed" /\ r.stderr # ""
              THEN Emit(l1, "WARNING", "script errors/warnings") ELSE l1
    IN  IF r.kind = "completed"
        THEN Emit(l2, IF res.success THEN "INFO" ELSE "ERROR", res.reason)
        ELSE l2

\* The lines execute_js_file logs once subprocess.run has returned or raised.
ExecLog(l, r, res) ==
    LET l1 == IF r.kind = "completed" /\ r.stdout # ""
              THEN Emit(l, "INFO", "script output") ELSE l
        l2 == IF r.kind = "completed" /\ r.stderr # ""
              THEN Emit(l1, "WARNING", "script errors/warnings") ELSE l1
    IN  Emit(l2, IF res.success THEN "INFO" ELSE "ERROR", res.reason)

\* The body of the for loop counting successes only.
Tally_FailureNotCounted(res) ==
    /\ results' = Append(results, res)
    /\ IF res.success
       THEN /\ successful_count' = successful_count + 1
            /\ UNCHANGED <<failed_count, all_successful>>
       ELSE /\ all_successful' = FALSE
            /\ UNCHANGED <<successful_count, failed_count>>
    /\ idx' = idx + 1

\* The body of the for loop with 'all_successful = success' in place of the
\* assignment in the else branch.
Tally_FlagFollowsLast(res) ==
    /\ results' = Append(results, res)
    /\ IF res.success
       THEN /\ successful_count' = successful_count + 1
            /\ UNCHANGED failed_count
       ELSE /\ failed_count' = failed_count + 1
            /\ UNCHANGED successful_count
    /\ all_successful' = res.success
    /\ idx' = idx + 1

\* The body of the for loop after execute_js_file has returned res.
Tally(res) ==
    /\ results' = Append(results, res)
    /\ IF res.success
       THEN /\ successful_count' = successful_count + 1
            /\ UNCHANGED <<failed_count, all_successful>>
       ELSE /\ failed_count' = failed_count + 1
            /\ all_successful' = FALSE
            /\ UNCHANGED successful_count
    /\ idx' = idx + 1

\* for js_file in js_files: execute_js_file(js_file) starts subprocess.run.
ExecuteJsFileStart ==
    /\ pc = "execute_js_file"
    /\ idx < Len(js_files)
    /\ LET js_file == js_files[idx + 1] IN
       \/ /\ child' = "file"
          /\ calls' = Append(calls, Call("file", js_file, "running"))
          /\ log' = Emit(log, "INFO", "executing")
          /\ pc' = "execute_js_file_wait"
          /\ UNCHANGED <<results, successful_count, failed_count, all_successful, idx>>
       \/ \E f \in SpawnFailures :
          LET res == ExecSpawnFailure(js_file, f) IN
          /\ calls' = Append(calls, Call("file", js_file, f))
          /\ log' = Emit(Emit(log, "INFO", "executing"), "ERROR", res.reason)
          /\ Tally(res)
          /\ UNCHANGED <<child, pc>>
    /\ UNCHANGED <<connection_string, dirState, dirEntries, tool, conn, js_files,
                   success, exitCode, interrupted, fatal, summary>>

\* execute_js_file() returning on a timeout without ending the child.
ExecuteJsFileFinish_TimeoutLeavesChild ==
    /\ pc = "execute_js_file_wait"
    /\ \E r \in RunOutcomes :
          LET res == ExecResult(js_files[idx + 1], r) IN
          /\ calls' = Finished(calls, IF r.kind = "completed"
                                      THEN (IF r.returncode = 0 THEN "exit0" ELSE "nonzero")
                                      ELSE r.kind)
          /\ log' = ExecLog(log, r, res)
          /\ Tally(res)
          /\ child' = IF r.kind = "timeout" THEN child ELSE "none"
    /\ pc' = "execute_js_file"
    /\ UNCHANGED <<connection_string, dirState, dirEntries, tool, conn, js_files,
                   success, exitCode, interrupted, fatal, summary>>

\* execute_js_file(js_file): subprocess.run returns or raises; the loop tallies.
ExecuteJsFileFinish ==
    /\ pc = "execute_js_file_wait"
    /\ \E r \in RunOutcomes :
          LET res == ExecResult(js_files[idx + 1], r) IN
          /\ calls' = Finished(calls, IF r.kind = "completed"
                                      THEN (IF r.returncode = 0 THEN "exit0" ELSE "nonzero")
                                      ELSE r.kind)
          /\ log' = ExecLog(log, r, res)
          /\ Tally(res)
    /\ child' = "none"
    /\ pc' = "execute_js_file"
    /\ UNCHANGED <<connection_string, dirState, dirEntries, tool, conn, js_files,
                   success, exitCode, interrupted, fatal, summary>>

\* deploy_indexes() leaving the loop at the first failure.
Summary_BreakOnFailure ==
    /\ pc = "execute_js_file"
    /\ idx = Len(js_files) \/ ~all_successful
    /\ log' = Emit(log, "INFO", "deployment summary")
    /\ summary' = Append(summary, [total |-> Len(js_files),
                                   successful |-> successful_count,
                                   failed |-> failed_count])
    /\ success' = IF all_successful THEN "ok" ELSE "fail"
    /\ pc' = "deploy_ret"
    /\ UNCHANGED <<connection_string, dirState, dirEntries, tool, conn, js_files,
                   idx, successful_count, failed_count, all_successful, child,
                   calls, results, exitCode, interrupted, fatal>>

\* deploy_indexes(): the summary after the loop, and the return value.
Summary ==
    /\ pc = "execute_js_file"
    /\ idx = Len(js_files)
    /\ log' = Emit(log, "INFO", "deployment summary")
    /\ summary' = Append(summary, [total |-> Len(js_files),
                                   successful |-> successful_count,
                                   failed |-> failed_count])
    /\ success' = IF all_successful THEN "ok" ELSE "fail"
    /\ pc' = "deploy_ret"
    /\ UNCHANGED <<connection_string, dirState, dirEntries, tool, conn, js_files,
                   idx, successful_count, failed_count, all_successful, child,
                   calls, results, exitCode, interrupted, fatal>>

\* main() exiting with 0 whatever deploy_indexes returned.
MainAfterDeployIndexes_AlwaysZero ==
    /\ pc = "deploy_ret"
    /\ log' = Emit(log, "INFO", "completed successfully")
    /\ Exit(0)
    /\ UNCHANGED <<connection_string, dirState, dirEntries, tool, conn, js_files,
                   idx, successful_count, failed_count, all_successful, success,
                   child, calls, results, interrupted, fatal, summary>>

\* main(): if success: sys.exit(0) else: sys.exit(1)
MainAfterDeployIndexes ==
    /\ pc = "deploy_ret"
    /\ IF success = "ok"
       THEN /\ log' = Emit(log, "INFO", "completed successfully")
            /\ Exit(0)
       ELSE /\ log' = Emit(log, "ERROR", "completed with errors")
            /\ Exit(1)
    /\ UNCHANGED <<connection_string, dirState, dirEntries, tool, conn, js_files,
                   idx, successful_count, failed_count, all_successful, success,
                   child, calls, results, interrupted, fatal, summary>>

\* Positions inside main()'s try block.
InTry ==
    pc \in {"check_mongosh", "check_mongosh_wait", "check_mongosh_ret",
            "test_connection", "test_connection_wait", "test_connection_ret",
            "deploy_indexes", "execute_js_file", "execute_js_file_wait",
            "deploy_ret"}

\* Positions inside the try block that no inner 'except Exception' covers.
OutsideInnerHandlers ==
    pc \in {"check_mongosh_ret", "test_connection_ret", "execute_js_file", "deploy_ret"}

\* execute_js_file catching the interruption as it catches Exception: the
\* interrupted script is tallied as failed and the loop goes on.
KeyboardInterrupt_Absorbed ==
    /\ InTry
    /\ interrupted' = TRUE
    /\ IF pc = "execute_js_file_wait"
       THEN /\ child' = "none"
            /\ calls' = Finished(calls, "interrupted")
            /\ log' = Emit(log, "ERROR", "unexpected error")
            /\ results' = Append(results, [file |-> js_files[idx + 1], success |-> FALSE,
                                           output |-> "exception text",
                                           reason |-> "unexpected error"])
            /\ failed_count' = failed_count + 1
            /\ all_successful' = FALSE
            /\ idx' = idx + 1
            /\ pc' = "execute_js_file"
            /\ UNCHANGED <<exitCode, successful_count>>
       ELSE /\ child' = "none"
            /\ calls' = IF child # "none" THEN Finished(calls, "interrupted") ELSE calls
            /\ log' = Emit(log, "WARNING", "interrupted by user")
            /\ Exit(130)
            /\ UNCHANGED <<results, failed_count, all_successful, idx, successful_count>>
    /\ UNCHANGED <<connection_string, dirState, dirEntries, tool, conn, js_files,
                   success, fatal, summary>>

\* except KeyboardInterrupt: the signal arrives anywhere in the try block;
\* subprocess.run kills the child it is waiting for before the exception
\* propagates.
KeyboardInterrupt ==
    /\ InTry
    /\ child' = "none"
    /\ calls' = IF child # "none" THEN Finished(calls, "interrupted") ELSE calls
    /\ log' = Emit(log, "WARNING", "interrupted by user")
    /\ interrupted' = TRUE
    /\ Exit(130)
    /\ UNCHANGED <<connection_string, dirState, dirEntries, tool, conn, js_files,
                   idx, successful_count, failed_count, all_successful, success,
                   results, fatal, summary>>

\* An outer handler that also catches the SystemExit of sys.exit(0).
FatalError_CatchesSystemExit ==
    /\ OutsideInnerHandlers \/ (pc = "done" /\ exitCode = 0 /\ ~fatal)
    /\ log' = Emit(log, "ERROR", "fatal error")
    /\ fatal' = TRUE
    /\ Exit(1)
    /\ UNCHANGED <<connection_string, dirState, dirEntries, tool, conn, js_files,
                   idx, successful_count, failed_count, all_successful, success,
                   child, calls, results, interrupted, summary>>

\* except Exception: an exception raised by main()'s or deploy_indexes()'s own
\* statements reaches the outer handler.
FatalError ==
    /\ OutsideInnerHandlers
    /\ log' = Emit(log, "ERROR", "fatal error")
    /\ fatal' = TRUE
    /\ Exit(1)
    /\ UNCHANGED <<connection_string, dirState, dirEntries, tool, conn, js_files,
                   idx, successful_count, failed_count, all_successful, success,
                   child, calls, results, interrupted, summary>>

Next ==
    \/ Main
    \/ CheckMongoshStart
    \/ CheckMongoshFinish
    \/ MainAfterCheckMongosh
    \/ TestConnectionStart
    \/ TestConnectionFinish
    \/ MainAfterTestConnection
    \/ DeployIndexes
    \/ ExecuteJsFileStart
    \/ ExecuteJsFileFinish
    \/ Summary
    \/ MainAfterDeployIndexes
    \/ KeyboardInterrupt
    \/ FatalError

Spec == Init /\ [][Next]_vars

\* The interpreter keeps executing the program, and every child process exits
\* or runs into the timeout of its subprocess.run call.
FairSpec == Spec /\ WF_vars(Next)
-----------------------------------------------------------------------------
(* Vocabulary of the properties *)

IsFileCall(c) == c.kind = "file"

\* The subprocess.run calls made by execute_js_file, in the order made.
FileCalls == SelectSeq(calls, IsFileCall)

\* The entries of the directory the pattern '*.js' selects.
JsEntries == { n \in dirEntries : Len(n) >= 3 /\ n[Len(n) - 2] = 46
                                  /\ n[Len(n) - 1] = 106 /\ n[Len(n)] = 115 }

\* a precedes b in lexicographic (code point) order.
LexBefore(a, b) ==
    \E k \in 1..(Len(b)) :
        /\ \A m \in 1..(k - 1) : m <= Len(a) /\ a[m] = b[m]
        /\ \/ k = Len(a) + 1
           \/ k <= Len(a) /\ a[k] < b[k]

Attempted(name) == \E i \in 1..Len(calls) : calls[i].kind = "file" /\ calls[i].file = name

ReturnedZero(name) ==
    \E i \in 1..Len(calls) :
        calls[i].kind = "file" /\ calls[i].file = name /\ calls[i].outcome = "exit0"

Successes == { i \in 1..Len(results) : results[i].success }
Failures == { i \in 1..Len(results) : ~results[i].success }

LastSummary == summary[Len(summary)]

-----------------------------------------------------------------------------
\* C1: a run of main() that ends without interruption exits with 0 or 1, and
\* with 0 exactly when the tool check succeeded, the connectivity check
\* succeeded, at least one script was discovered, every discovered script's
\* invocation returned exit code 0 and no exception reached the outer handler.
C1_ExitCodeContract ==
    (pc = "done" /\ ~interrupted) =>
        /\ exitCode \in {0, 1}
        /\ exitCode = 0 <=>
              /\ tool = "ok"
              /\ conn = "ok"
              /\ JsEntries # {}
              /\ dirState = "dir"
              /\ \A n \in JsEntries : ReturnedZero(n)
              /\ ~fatal

C1_Witness ==
    /\ pc = "done"
    /\ exitCode = 0
    /\ Cardinality(JsEntries) >= 2
    /\ \A n \in JsEntries : ReturnedZero(n)

\* C2: deploy_indexes never makes more execute_js_file attempts than there are
\* discovered scripts, and when the summary is emitted it has made exactly one
\* attempt per discovered script, N >= 1 in all, with
\* successful_count + failed_count = N = the reported total.
C2_ExactlyNAttempts ==
    LET fc == FileCalls
        n == Cardinality(JsEntries)
    IN
    /\ Len(fc) <= n
    /\ \A i, j \in 1..Len(fc) : i # j => fc[i].file # fc[j].file
    /\ summary # <<>> =>
          /\ Len(fc) = n
          /\ \A name \in JsEntries : Attempted(name)
          /\ n >= 1
          /\ LastSummary.total = n
          /\ LastSummary.successful + LastSummary.failed = LastSummary.total
          /\ successful_count + failed_count = n

C2_Witness ==
    /\ summary # <<>>
    /\ LastSummary.total = 3
    /\ \E i, j, k \in 1..Len(calls) :
          /\ calls[i].outcome = "timeout"
          /\ calls[j].outcome = "nonzero"
          /\ calls[k].outcome = "notfound"
          /\ calls[i].kind = "file" /\ calls[j].kind = "file" /\ calls[k].kind = "file"

\* C3: scripts are executed in lexicographic order of their file names, one
\* after the other: the calls made so far are for the lexicographically first
\* discovered scripts, in increasing order, whatever order the directory was
\* listed in, and every call but the last has ended.
C3_LexicographicOrder ==
    LET fc == FileCalls
        js == JsEntries
        attempted == { fc[i].file : i \in 1..Len(fc) }
    IN
    /\ \A i, j \in 1..Len(fc) : i < j => LexBefore(fc[i].file, fc[j].file)
    /\ \A a, b \in js : (LexBefore(a, b) /\ b \in attempted) => a \in attempted
    /\ attempted \subseteq js
    /\ \A i \in 1..(Len(calls) - 1) : calls[i].outcome # "running"

\* "1.js", "10.js", "2.js" have all run: "10.js" ran before "2.js".
C3_Witness ==
    /\ Len(FileCalls) = 3
    /\ FileCalls[1].file = <<49, 46, 106, 115>>
    /\ FileCalls[2].file = <<49, 48, 46, 106, 115>>
    /\ FileCalls[3].file = <<50, 46, 106, 115>>
    /\ pc = "done"

\* What a run that has emitted its summary, or has had a failure, satisfies;
\* what every step of the loop satisfies.
C4_StateInv ==
    LET fc == FileCalls IN
    /\ summary # <<>> =>
          /\ Len(results) = Len(js_files)
          /\ LastSummary.successful = Cardinality(Successes)
          /\ LastSummary.failed = Cardinality(Failures)
          /\ \A i \in 1..Len(results) :
                results[i].success <=> fc[i].outcome = "exit0"
    /\ (Failures # {} /\ pc = "deploy_ret") => success = "fail"
    /\ (Failures # {} /\ pc = "done" /\ ~interrupted) => exitCode = 1

C4_StepInv ==
    /\ Len(results') > Len(results) =>
          /\ pc' = "execute_js_file"
          /\ exitCode' = NoExit
          /\ idx' = idx + 1
    /\ (pc \in {"execute_js_file", "execute_js_file_wait"} /\ idx < Len(js_files)
        /\ pc' \notin {"execute_js_file", "execute_js_file_wait"})
          => (interrupted' \/ fatal')

\* C4: a failed script does not end the loop: the step that records a failure
\* moves on to the next script, only an interruption or an exception reaching
\* the outer handler leaves the loop before the last script, and a run that
\* emits its summary has attempted every script, counts the real outcomes and,
\* if any script failed, returns failure and (if not interrupted) exits with 1.
C4_FailureDoesNotBlock == [](C4_StateInv) /\ [][C4_StepInv]_vars

\* A fails, B succeeds: both attempted, 1 success, 1 failure, exit code 1.
C4_Witness ==
    /\ pc = "done"
    /\ exitCode = 1
    /\ Len(results) = 2
    /\ ~results[1].success
    /\ results[2].success
    /\ summary = <<[total |-> 2, successful |-> 1, failed |-> 1]>>

\* C5: when MONGODB_CONNECTION_STRING is unset, no external tool is ever
\* invoked (no tool check, no connectivity check, no script execution, no
\* directory scan) and the process exits with status 1.
C5_MissingSecret ==
    connection_string = "unset" =>
        /\ calls = <<>>
        /\ child = "none"
        /\ pc \in {"main", "done"}
        /\ pc = "done" => exitCode = 1

C5_Witness ==
    /\ connection_string = "unset"
    /\ pc = "done"
    /\ exitCode = 1

\* C6: when the tool-availability check fails (tool not found, timeout,
\* non-zero exit or any other exception of the version query), the only
\* external invocation of the run is the version query: the connectivity
\* check, the directory scan and the script executions never start, and the
\* run, unless interrupted before it exits, ends with exit code 1.
C6_ToolCheckFailure ==
    /\ (Len(calls) >= 1 /\ calls[1].outcome \in {"notfound", "oserror", "timeout",
                                                 "nonzero", "error"}) => tool = "fail"
    /\ tool = "fail" =>
          /\ Len(calls) = 1
          /\ calls[1].kind = "version"
          /\ child = "none"
          /\ conn = "none"
          /\ js_files = <<>>
          /\ \A i \in 1..Len(log) :
                log[i].msg \notin {"testing connection", "starting deployment",
                                   "directory not found", "not a directory",
                                   "error scanning directory", "no .js files found",
                                   "found files", "executing"}
          /\ pc \in {"check_mongosh_ret", "done"}
          /\ (pc = "done" /\ ~interrupted) => exitCode = 1

\* mongosh is not on the path: the run has ended with 1 after one invocation.
C6_Witness ==
    /\ pc = "done"
    /\ tool = "fail"
    /\ calls = <<[kind |-> "version", file |-> <<>>, outcome |-> "notfound"]>>
    /\ exitCode = 1
    /\ ~fatal

\* C7: when the connectivity check fails (non-zero exit, timeout or any
\* exception of the invocation), no script is executed and the directory is
\* not scanned, and the run, unless interrupted before it exits, ends with
\* exit code 1; every script execution is preceded by a successful tool
\* check followed by a successful connectivity check.
C7_ConnectivityGate ==
    /\ (Len(calls) >= 2 /\ calls[2].outcome \in {"notfound", "oserror", "timeout",
                                                 "nonzero", "error"}) => conn = "fail"
    /\ conn # "ok" =>
          /\ FileCalls = <<>>
          /\ js_files = <<>>
          /\ child # "file"
          /\ pc \notin {"deploy_indexes", "execute_js_file", "execute_js_file_wait",
                        "deploy_ret"}
    /\ conn = "fail" =>
          /\ Len(calls) = 2
          /\ pc \in {"test_connection_ret", "done"}
          /\ (pc = "done" /\ ~interrupted) => exitCode = 1
    /\ \A i \in 1..Len(calls) :
          calls[i].kind = "file" =>
              /\ i >= 3
              /\ calls[1] = [kind |-> "version", file |-> <<>>, outcome |-> "exit0"]
              /\ calls[2] = [kind |-> "ping", file |-> <<>>, outcome |-> "exit0"]

\* The ping timed out after a successful tool check: the run ended with 1.
C7_Witness ==
    /\ pc = "done"
    /\ conn = "fail"
    /\ tool = "ok"
    /\ calls[2].outcome = "timeout"
    /\ exitCode = 1
    /\ ~fatal
    /\ JsEntries # {}

\* C8: when discovery yields no scripts (the directory does not exist, the
\* path is not a directory, no entry matches '*.js', or the scan raises),
\* deploy_indexes executes no script, emits no summary and returns failure,
\* and the run, unless interrupted before it exits, ends with exit code 1.
C8_NoScripts ==
    (dirState # "dir" \/ JsEntries = {}) =>
        /\ FileCalls = <<>>
        /\ js_files = <<>>
        /\ results = <<>>
        /\ summary = <<>>
        /\ pc \notin {"execute_js_file", "execute_js_file_wait"}
        /\ pc = "deploy_ret" => success = "fail"
        /\ success # "ok"
        /\ (pc = "done" /\ ~interrupted) => exitCode = 1

\* The directory holds "a.txt" only; both checks passed; deploy_indexes failed.
C8_Witness ==
    /\ pc = "done"
    /\ dirState = "dir"
    /\ dirEntries = {<<97, 46, 116, 120, 116>>}
    /\ conn = "ok"
    /\ success = "fail"
    /\ exitCode = 1
    /\ ~fatal

\* Outcomes of subprocess.run other than a return code; what the recorded
\* results satisfy; what the step recording a failure satisfies.
Abnormal == {"timeout", "error", "notfound", "oserror"}

C9_StateInv ==
    LET fc == FileCalls IN
    /\ \A i \in 1..Len(results) :
          LET c == fc[i]
              r == results[i]
          IN  /\ r.file = c.file
              /\ c.outcome \in Abnormal =>
                    /\ ~r.success
                    /\ r.reason \in {"timed out", "file not found", "unexpected error"}
                    /\ r.output \in {"Timeout", "File not found", "exception text"}
                    /\ \E k \in 1..Len(log) :
                          log[k].level = "ERROR" /\ log[k].msg = r.reason
              /\ c.outcome = "timeout" <=> r.reason = "timed out"
              /\ c.outcome = "timeout" => r.output = "Timeout"
              /\ c.outcome = "nonzero" <=> r.reason = "exit code"
              /\ c.outcome = "exit0" <=> r.success
    /\ failed_count = Cardinality(Failures)
    /\ Cardinality({ i \in 1..Len(fc) : fc[i].outcome \in Abnormal })
          <= failed_count
    /\ Len(results) = Cardinality({ i \in 1..Len(fc) :
                                      fc[i].outcome \notin {"running", "interrupted"} })
    /\ summary # <<>> =>
          /\ Len(fc) = Len(js_files)
          /\ LastSummary.failed = failed_count

C9_StepInv ==
    (Len(results') > Len(results) /\ ~results'[Len(results')].success) =>
        /\ pc' = "execute_js_file"
        /\ exitCode' = NoExit
        /\ ~fatal'
        /\ failed_count' = failed_count + 1
        /\ successful_count' = successful_count

\* C9: a script invocation that times out or raises (the tool not found, the
\* spawn failing, any other exception) is recorded as a failed execution
\* whose logged reason and returned text name the cause ("timed out" /
\* "Timeout", "file not found", "unexpected error") and differ from the
\* reason logged for a non-zero exit; it is counted in failed_count, and the
\* step that records it stays in the loop without exiting, so the remaining
\* scripts are attempted and the summary is emitted.
C9_TimeoutIsAFailure == [](C9_StateInv) /\ [][C9_StepInv]_vars

\* The first script timed out, the tool was missing for the second, the third
\* ran; the summary reports 1 success and 2 failures.
C9_Witness ==
    /\ Len(results) = 3
    /\ results[1].output = "Timeout"
    /\ results[2].output = "File not found"
    /\ results[3].success
    /\ summary = <<[total |-> 3, successful |-> 1, failed |-> 2]>>
    /\ pc = "done"
    /\ exitCode = 1
    /\ ~fatal

\* What an interrupted run satisfies; nothing happens after the interruption.
C10_StateInv ==
    LET fc == FileCalls IN
    /\ interrupted =>
          /\ pc = "done"
          /\ exitCode = 130
          /\ child = "none"
          /\ \A i \in 1..Len(calls) : calls[i].outcome # "running"
    /\ exitCode = 130 => interrupted
    /\ \A i \in 1..Len(calls) :
          calls[i].outcome = "interrupted" =>
              /\ i = Len(calls)
              /\ interrupted
              /\ calls[i].kind = "version" => tool = "none"
              /\ calls[i].kind = "ping" => conn = "none"
              /\ calls[i].kind = "file" => Len(results) = Len(fc) - 1

C10_StepInv ==
    interrupted => (calls' = calls /\ exitCode' = exitCode /\ results' = results)

\* C10: an interruption inside main()'s try block (during the tool check, the
\* connectivity check, discovery or a script execution, whatever the tallies)
\* ends the run with exit code 130: the child being waited for is gone, the
\* interrupted invocation is not recorded as a failure of its step, nothing is
\* invoked afterwards, and 130 is the exit code of interrupted runs only.
C10_Interruption == [](C10_StateInv) /\ [][C10_StepInv]_vars

\* Interrupted during the second script, after one failure was tallied.
C10_Witness ==
    /\ interrupted
    /\ exitCode = 130
    /\ Len(FileCalls) = 2
    /\ FileCalls[2].outcome = "interrupted"
    /\ failed_count = 1
    /\ Len(results) = 1

\* The calls whose child has not ended; the positions at which subprocess.run
\* is waiting; what holds of the children in every state; what holds of every
\* step that starts an invocation or returns from one.
Running == { i \in 1..Len(calls) : calls[i].outcome = "running" }

Waiting == pc \in {"check_mongosh_wait", "test_connection_wait", "execute_js_file_wait"}

C11_StateInv ==
    /\ Cardinality(Running) <= 1
    /\ Running \subseteq {Len(calls)}
    /\ child # "none" <=> Running # {}
    /\ child # "none" <=> Waiting
    /\ child # "none" => child = calls[Len(calls)].kind
    /\ pc = "done" => (child = "none" /\ Running = {})

C11_StepInv ==
    /\ Len(calls') > Len(calls) =>
          /\ child = "none"
          /\ Running = {}
          /\ Len(calls') = Len(calls) + 1
    /\ (Waiting /\ ~Waiting') =>
          /\ child' = "none"
          /\ calls'[Len(calls')].outcome \in {"exit0", "nonzero", "timeout", "error",
                                              "interrupted"}

\* C11: external invocations are serial and scoped: at most one child process
\* is alive in any state, an invocation starts only when no child of an
\* earlier step is alive, and no child is alive once its step has returned
\* (by exit, timeout, exception or interruption) or once the run has ended.
C11_SerialAndScoped == [](C11_StateInv) /\ [][C11_StepInv]_vars

\* The second script starts after the first one's child was ended by its timeout.
C11_Witness ==
    /\ Len(FileCalls) = 2
    /\ FileCalls[1].outcome = "timeout"
    /\ FileCalls[2].outcome = "running"
    /\ child = "file"

\* The run-level state a program state stands for.  Executing(i): the i-th
\* script is running or was the last one attempted.  Failed: a check or the
\* discovery has failed, or the run ended through one of main()'s handlers or
\* without a summary.
RunState ==
    IF pc = "done"
    THEN [phase |-> IF summary # <<>> /\ ~interrupted /\ ~fatal THEN "Done" ELSE "Failed",
          i |-> 0]
    ELSE IF pc = "deploy_ret"
    THEN [phase |-> IF summary # <<>> THEN "Summarized" ELSE "Failed", i |-> 0]
    ELSE IF pc = "execute_js_file_wait"
    THEN [phase |-> "Executing", i |-> idx + 1]
    ELSE IF pc = "execute_js_file"
    THEN [phase |-> IF idx = 0 THEN "ScriptsDiscovered" ELSE "Executing", i |-> idx]
    ELSE IF pc = "deploy_indexes"
    THEN [phase |-> "ConnectionVerified", i |-> 0]
    ELSE IF pc = "test_connection_ret"
    THEN [phase |-> IF conn = "ok" THEN "ConnectionVerified" ELSE "Failed", i |-> 0]
    ELSE IF pc \in {"test_connection", "test_connection_wait"}
    THEN [phase |-> "ToolChecked", i |-> 0]
    ELSE IF pc = "check_mongosh_ret"
    THEN [phase |-> IF tool = "ok" THEN "ToolChecked" ELSE "Failed", i |-> 0]
    ELSE [phase |-> "NotStarted", i |-> 0]

\* The run-level transitions: one step along the path, or to the failed state.
Advance(s, t, n) ==
    \/ s.phase = "NotStarted" /\ t.phase = "ToolChecked"
    \/ s.phase = "ToolChecked" /\ t.phase = "ConnectionVerified"
    \/ s.phase = "ConnectionVerified" /\ t.phase = "ScriptsDiscovered"
    \/ s.phase = "ScriptsDiscovered" /\ t.phase = "Executing" /\ t.i = 1
    \/ s.phase = "Executing" /\ t.phase = "Executing" /\ t.i = s.i + 1 /\ t.i <= n
    \/ s.phase = "Executing" /\ t.phase = "Summarized" /\ s.i = n
    \/ s.phase = "Summarized" /\ t.phase = "Done"

ToFailed(s, t) ==
    /\ t.phase = "Failed"
    /\ s.phase \notin {"Done", "Failed"}

C12_StateInv ==
    LET fc == FileCalls IN
    /\ Len(summary) <= 1
    /\ RunState.phase \in {"Summarized", "Done"} => Len(summary) = 1
    /\ RunState.phase \notin {"Summarized", "Done", "Failed"} => summary = <<>>
    /\ (RunState.phase = "Failed" /\ ~interrupted /\ ~fatal) => summary = <<>>
    /\ summary # <<>> =>
          /\ Len(js_files) >= 1
          /\ Len(results) = Len(js_files)
          /\ Len(fc) = Len(js_files)
    /\ RunState.phase = "Executing" => (RunState.i >= 1 /\ RunState.i <= Len(js_files))
    /\ (tool = "fail" \/ conn = "fail" \/ JsEntries = {} \/ dirState # "dir")
          => summary = <<>>

C12_StepInv ==
    /\ \/ RunState' = RunState
       \/ Advance(RunState, RunState', Len(js_files))
       \/ ToFailed(RunState, RunState')
    /\ (RunState.phase \in {"NotStarted", "ToolChecked", "ConnectionVerified"}
        /\ RunState'.phase = "Failed") => summary' = <<>>
    /\ failed_count' > failed_count =>
          /\ RunState'.phase = "Executing"
          /\ RunState'.i = Len(results')
          /\ summary' = summary
          /\ success' = success
          /\ exitCode' = exitCode
    /\ summary' # summary =>
          /\ RunState.phase = "Executing"
          /\ RunState.i = Len(js_files)
          /\ RunState'.phase = "Summarized"

\* C12: the run-level state advances only along NotStarted -> ToolChecked ->
\* ConnectionVerified -> ScriptsDiscovered -> Executing(1..N) -> Summarized ->
\* Done, one step at a time and never backwards, or goes to the terminal
\* failed state; a check or discovery failure goes there without a summary; a
\* failed script leaves the run on its path and changes only the tally; the
\* summary is emitted at most once, only after all N scripts were attempted.
C12_RunStateMachine == [](C12_StateInv) /\ [][C12_StepInv]_vars

\* Done after three scripts of which one failed, with its one summary.
C12_Witness ==
    /\ RunState.phase = "Done"
    /\ Len(js_files) = 3
    /\ failed_count = 1
    /\ Len(summary) = 1
    /\ exitCode = 1

\* The error lines in the log with one of the given messages.
ErrorLines(msgs) ==
    { k \in 1..Len(log) : log[k].level = "ERROR" /\ log[k].msg \in msgs }

CallsOfKind(kind) == { i \in 1..Len(calls) : calls[i].kind = kind }

\* C13: in the tool check, the connectivity check and a script execution,
\* 'tool not found', 'timeout' and 'non-zero exit' are logged as three
\* different error lines and all make the step return failure; no step is
\* retried: the tool check and the connectivity check are invoked at most
\* once and every discovered script at most once.
C13_DistinctReasonsNoRetry ==
    LET fc == FileCalls IN
    /\ \A i \in CallsOfKind("version") :
          /\ calls[i].outcome \in {"notfound", "timeout", "nonzero"} => tool = "fail"
          /\ calls[i].outcome = "notfound" <=> ErrorLines({"mongosh not installed"}) # {}
          /\ calls[i].outcome = "nonzero" <=> ErrorLines({"mongosh returned an error"}) # {}
          /\ calls[i].outcome = "timeout" => ErrorLines({"error checking mongosh"}) # {}
    /\ \A i \in CallsOfKind("ping") :
          /\ calls[i].outcome \in {"notfound", "timeout", "nonzero"} => conn = "fail"
          /\ calls[i].outcome = "notfound" =>
                ErrorLines({"unexpected error during connection test"}) # {}
          /\ calls[i].outcome = "nonzero" <=> ErrorLines({"failed to connect"}) # {}
          /\ calls[i].outcome = "timeout" <=> ErrorLines({"connection timed out"}) # {}
    /\ \A i \in 1..Len(results) :
          /\ fc[i].outcome \in {"notfound", "timeout", "nonzero"}
                => ~results[i].success
          /\ fc[i].outcome = "notfound" <=> results[i].reason = "file not found"
          /\ fc[i].outcome = "nonzero" <=> results[i].reason = "exit code"
          /\ fc[i].outcome = "timeout" <=> results[i].reason = "timed out"
    /\ \A o \in {"notfound", "timeout", "nonzero"} :
          LET reason == IF o = "notfound" THEN "file not found"
                        ELSE IF o = "timeout" THEN "timed out" ELSE "exit code"
          IN  Cardinality(ErrorLines({reason}))
                 = Cardinality({ i \in 1..Len(fc) : fc[i].outcome = o })
    /\ Cardinality(CallsOfKind("version")) <= 1
    /\ Cardinality(CallsOfKind("ping")) <= 1
    /\ \A i, j \in CallsOfKind("file") : calls[i].file = calls[j].file => i = j
    /\ Len(calls) <= 2 + Cardinality(JsEntries)

\* One run in which the three scripts failed in the three ways.
C13_Witness ==
    /\ Len(results) = 3
    /\ { FileCalls[i].outcome : i \in 1..3 } = {"notfound", "timeout", "nonzero"}
    /\ failed_count = 3
    /\ pc = "done"
    /\ exitCode = 1

\* The lines a step has added to the log; whether one of them is a warning or
\* an error.
Alarming(line) == line.level \in {"WARNING", "ERROR"}

StepLogsAlarm ==
    /\ Len(log') > Len(log)
    /\ SubSeq(log', 1, Len(log)) = log
    /\ \E k \in (Len(log) + 1)..Len(log') : Alarming(log'[k])

C14_StateInv ==
    /\ tool = "fail" => \E k \in 1..Len(log) : Alarming(log[k])
    /\ conn = "fail" => \E k \in 1..Len(log) : Alarming(log[k])
    /\ success = "fail" => \E k \in 1..Len(log) : Alarming(log[k])
    /\ Cardinality({ k \in 1..Len(log) :
                       log[k].level = "ERROR"
                       /\ log[k].msg \in {"exit code", "timed out", "file not found",
                                          "unexpected error"} }) = failed_count
    /\ (pc = "done" /\ exitCode # 0) => Alarming(log[Len(log)])
    /\ (pc = "done" /\ connection_string \in {"unset", "empty"}) =>
          ErrorLines({"secret not set"}) # {}
    /\ interrupted => log[Len(log)] = [level |-> "WARNING", msg |-> "interrupted by user"]
    /\ fatal => log[Len(log)] = [level |-> "ERROR", msg |-> "fatal error"]

C14_StepInv ==
    /\ (tool' = "fail" /\ tool # "fail") => StepLogsAlarm
    /\ (conn' = "fail" /\ conn # "fail") => StepLogsAlarm
    /\ failed_count' > failed_count => StepLogsAlarm
    /\ (js_files' = <<>> /\ pc = "deploy_indexes" /\ pc' = "deploy_ret") => StepLogsAlarm
    /\ (exitCode' # exitCode /\ exitCode' # 0) => StepLogsAlarm
    /\ (interrupted' /\ ~interrupted) => StepLogsAlarm
    /\ (fatal' /\ ~fatal) => StepLogsAlarm

\* C14: no failure is silent: the step that makes a check return failure,
\* tallies a failed script, finds no script, or exits with a code other than
\* 0 (missing secret, failed check, failed deployment, outer exception,
\* interruption) logs at least one line at warning or error level, and a run
\* that has failed always has such a line in its log.
C14_NoSilentFailure == [](C14_StateInv) /\ [][C14_StepInv]_vars

\* A script timed out and the run went on to exit with 1: both were logged.
C14_Witness ==
    /\ pc = "done"
    /\ exitCode = 1
    /\ ~fatal
    /\ ErrorLines({"timed out"}) # {}
    /\ ErrorLines({"completed with errors"}) # {}
    /\ failed_count = 1
    /\ Len(results) = 2

\* The invocations of scripts that have returned or raised.
CompletedAttempts ==
    LET fc == FileCalls IN
    { i \in 1..Len(fc) : fc[i].outcome \notin {"running", "interrupted"} }

C15_StateInv ==
    /\ successful_count + failed_count = idx
    /\ idx = Cardinality(CompletedAttempts)
    /\ idx <= Len(js_files)
    /\ successful_count >= 0
    /\ failed_count >= 0
    /\ successful_count =
          LET fc == FileCalls IN
          Cardinality({ i \in 1..Len(fc) : fc[i].outcome = "exit0" })
    /\ all_successful <=> failed_count = 0

C15_StepInv ==
    /\ successful_count' >= successful_count
    /\ failed_count' >= failed_count
    /\ successful_count' + failed_count' <= successful_count + failed_count + 1
    /\ ~all_successful => ~all_successful'

\* C15: loop invariant of deploy_indexes: after the k script attempts
\* completed so far, successful_count + failed_count = k, both counters are
\* non-negative and never decrease, all_successful is true exactly when
\* failed_count = 0, and once false it never becomes true again.
C15_LoopInvariant == [](C15_StateInv) /\ [][C15_StepInv]_vars

\* A failure followed by a success: the flag stays false, the counters are 1 and 1.
C15_Witness ==
    /\ Len(results) = 2
    /\ ~results[1].success
    /\ results[2].success
    /\ ~all_successful
    /\ successful_count = 1
    /\ failed_count = 1
    /\ pc = "execute_js_file"
    /\ Len(js_files) = 3

\* What holds of the exit code and the number of invocations in every state;
\* an exit code, once set, stays.
C16_StateInv ==
    /\ pc = "done" <=> exitCode \in {0, 1, 130}
    /\ pc # "done" <=> exitCode = NoExit
    /\ Len(calls) <= 2 + Cardinality(JsEntries)
    /\ exitCode = 0 => (~fatal /\ ~interrupted)

C16_StepInv ==
    /\ exitCode # NoExit => (exitCode' = exitCode /\ pc' = "done")
    /\ (fatal' /\ ~fatal) => exitCode = NoExit
    /\ (interrupted' /\ ~interrupted) => exitCode = NoExit

\* C16: given that every external invocation exits or times out, every run
\* terminates, after at most 2 + N external invocations, with exactly one
\* exit code out of 0, 1 and 130, and the exit code of a sys.exit() call is
\* never replaced afterwards, in particular not by the outer handlers.
C16_Termination ==
    /\ <>(pc = "done")
    /\ [](C16_StateInv)
    /\ [][C16_StepInv]_vars

\* A run that ended with 0 after the two checks and three scripts.
C16_Witness ==
    /\ pc = "done"
    /\ exitCode = 0
    /\ Len(calls) = 5
    /\ Cardinality(JsEntries) = 3

====
